---- MODULE Spec2Model ----
(***************************************************************************)
(* A model of measurement.py: the retry loop around `airport -s`           *)
(* (get_access_points / _get_access_points), the interactive main block,   *)
(* the connection inspector (get_current_connection_info) and the peer     *)
(* counter (get_users_connected).                                          *)
(*                                                                         *)
(* Text is modelled character by character: a string is a sequence of      *)
(* one-character strings, so that str.strip, str.split('\n'), str.split()  *)
(* and str.split(":",1) are computed the way Python computes them.         *)
(* The network name 'wpa.mcgill.ca' is the one-character token "w"; every  *)
(* other token ("x", "ww", "wx", ...) is a different name.                 *)
(*                                                                         *)
(* Environment assumptions: the external commands exist and terminate      *)
(* (with a zero or a nonzero exit status), and the output files can be     *)
(* opened for writing.                                                     *)
(***************************************************************************)
EXTENDS Integers, Sequences, FiniteSets, TLC

VARIABLES
  pc,                  \* position of the single thread of control
  counter,             \* __main__: counter
  displayed,           \* last number printed by "Attempt %d"
  step_1_completed,    \* __main__: step_1_completed
  answer,              \* last answer typed at the retry prompt
  exit_code,           \* process exit status, meaningful when pc = "exited"
  fault,               \* uncaught exception that ended the process, if any
  done_printed,        \* "Done" was printed
  i,                   \* get_access_points: loop index
  success,             \* get_access_points: success
  scan_calls,          \* calls of _get_access_points in the current get_access_points call
  sleeps,              \* time.sleep(1) calls in the current get_access_points call
  kinds,               \* failure kinds seen in the current get_access_points call
  scan_status,         \* last `airport -s` run: "none", "zero", "nonzero"
  scan_output,         \* stdout of the last `airport -s` run that exited zero
  ap_file,             \* rows of the Access Points csv file
  ap_writes,           \* number of times the Access Points file was written
  conn_calls,          \* calls of get_current_connection_info
  conn_status,         \* last `airport -I` run: "none", "zero", "nonzero"
  conn_output,         \* what `airport -I` prints on this machine (SpecConn)
  result,              \* get_current_connection_info: result (the mapping)
  peer_calls,          \* calls of get_users_connected
  interfaces,          \* what netifaces reports on this machine (SpecPeers)
  broadcast_addresses, \* get_users_connected: broadcast_addresses
  k,                   \* get_users_connected: position in broadcast_addresses
  users_connected,     \* get_users_connected: users_connected
  ci_file,             \* mapping dumped to the Connection Info json file
  ci_writes            \* number of times the Connection Info file was written

vars == <<pc, counter, displayed, step_1_completed, answer, exit_code, fault,
          done_printed, i, success, scan_calls, sleeps, kinds, scan_status,
          scan_output, ap_file, ap_writes, conn_calls, conn_status,
          conn_output, result, peer_calls, interfaces, broadcast_addresses,
          k, users_connected, ci_file, ci_writes>>

mainVars == <<counter, displayed, step_1_completed, answer>>
scanVars == <<i, success, scan_calls, sleeps, kinds, scan_status, scan_output>>
connVars == <<conn_calls, conn_status, conn_output, result>>
peerVars == <<peer_calls, interfaces, broadcast_addresses, k, users_connected>>
fileVars == <<ap_file, ap_writes, ci_file, ci_writes>>
exitVars == <<exit_code, fault, done_printed>>

----------------------------------------------------------------------------
(* Bounds of the model.                                                    *)

\* "Yes" is accepted while counter < MaxCounter
MaxCounter == 2
\* length of command outputs in the whole-program Spec
MainLen == 3
\* interfaces reported in the whole-program Spec
MainIfaces == 1
\* AF_INET entries per interface in the whole-program Spec
MainLinks == 1
\* lines of `arp -a` output
MaxArp == 1
\* length of `airport -s` output in SpecScan
MaxScanLen == 5
\* length of `airport -I` output in SpecConn
MaxConnLen == 6
\* interfaces reported in SpecPeers
MaxIfaces == 2
\* AF_INET entries per interface in SpecPeers
MaxLinks == 2

----------------------------------------------------------------------------
(* Program constants.                                                      *)

number_attempts == 5

wpa_mcgill_ca == <<"w">>

users_connected_key == <<"users_connected">>

----------------------------------------------------------------------------
(* Python string operations.                                               *)

Whitespace == {" ", "\n"}

SeqsUpTo(S, n) == UNION {[1..m -> S] : m \in 0..n}

RECURSIVE lstrip(_)
lstrip(s) ==
  IF s = <<>> THEN s
  ELSE IF Head(s) \in Whitespace THEN lstrip(Tail(s)) ELSE s

RECURSIVE rstrip(_)
rstrip(s) ==
  IF s = <<>> THEN s
  ELSE IF s[Len(s)] \in Whitespace THEN rstrip(SubSeq(s, 1, Len(s) - 1)) ELSE s

strip(s) == rstrip(lstrip(s))

\* position of the first c in s, 0 when there is none
find(s, c) ==
  IF \E p \in 1..Len(s) : s[p] = c
  THEN CHOOSE p \in 1..Len(s) : s[p] = c /\ \A q \in 1..(p - 1) : s[q] # c
  ELSE 0

\* s.split(c): every occurrence of c separates; ''.split(c) is ['']
RECURSIVE split(_, _)
split(s, c) ==
  LET p == find(s, c)
  IN IF p = 0 THEN <<s>>
     ELSE <<SubSeq(s, 1, p - 1)>> \o split(SubSeq(s, p + 1, Len(s)), c)

\* s.split(c, 1): at most one split, at the first c
split1(s, c) ==
  LET p == find(s, c)
  IN IF p = 0 THEN <<s>>
     ELSE <<SubSeq(s, 1, p - 1), SubSeq(s, p + 1, Len(s))>>

\* length of the longest prefix of s without whitespace
RECURSIVE wordlen(_)
wordlen(s) ==
  IF s = <<>> \/ Head(s) \in Whitespace THEN 0 ELSE 1 + wordlen(Tail(s))

\* s.split(): the maximal runs of non-whitespace characters
RECURSIVE split_ws(_)
split_ws(s) ==
  LET t == lstrip(s)
      n == wordlen(t)
  IN IF t = <<>> THEN <<>>
     ELSE <<SubSeq(t, 1, n)>> \o split_ws(SubSeq(t, n + 1, Len(t)))

----------------------------------------------------------------------------
(* _get_access_points, lines 55-65: from the stdout of `airport -s` to the *)
(* rows that are written.                                                  *)

ScanAlphabet == {"w", "x", " ", "\n"}

ScanOutputs(n) == SeqsUpTo(ScanAlphabet, n)

\* lines 55-56: the lines of the stripped output, without the first
access_points(out) == Tail(split(strip(out), "\n"))

\* line 57
results(out) ==
  LET aps == access_points(out)
  IN [j \in 1..Len(aps) |-> split_ws(strip(aps[j]))]

\* line 60: the list comprehension, evaluated row by row; result[0] of an
\* empty row raises IndexError, which ends the comprehension
RECURSIVE comprehension(_)
comprehension(rows) ==
  IF rows = <<>> THEN [raised |-> FALSE, val |-> <<>>]
  ELSE IF Head(rows) = <<>> THEN [raised |-> TRUE, val |-> <<>>]
  ELSE LET rest == comprehension(Tail(rows))
       IN IF rest.raised THEN rest
          ELSE [raised |-> FALSE,
                val |-> IF Head(rows)[1] = wpa_mcgill_ca
                        THEN <<Head(rows)>> \o rest.val ELSE rest.val]

\* lines 58-62: the assignment does not happen when IndexError is raised
wpa_mcgill_results(out) ==
  LET c == comprehension(results(out))
  IN IF c.raised THEN <<>> ELSE c.val

----------------------------------------------------------------------------
(* The state after construction: the banner is printed, nothing has run.   *)

Init ==
  /\ pc = "start"
  /\ counter = 1
  /\ displayed = 0
  /\ step_1_completed = FALSE
  /\ answer = ""
  /\ exit_code = 0
  /\ fault = "none"
  /\ done_printed = FALSE
  /\ i = 0
  /\ success = FALSE
  /\ scan_calls = 0
  /\ sleeps = 0
  /\ kinds = {}
  /\ scan_status = "none"
  /\ scan_output = <<>>
  /\ ap_file = <<>>
  /\ ap_writes = 0
  /\ conn_calls = 0
  /\ conn_status = "none"
  /\ conn_output = <<>>
  /\ result = <<>>
  /\ peer_calls = 0
  /\ interfaces = <<>>
  /\ broadcast_addresses = <<>>
  /\ k = 0
  /\ users_connected = <<>>
  /\ ci_file = <<>>
  /\ ci_writes = 0

----------------------------------------------------------------------------
(* __main__, lines 140-162, and get_access_points, lines 82-88.            *)

\* lines 144-152: the location is read, the flags are set
Start ==
  /\ pc = "start"
  /\ pc' = "while"
  /\ step_1_completed' = FALSE
  /\ counter' = 1
  /\ UNCHANGED <<displayed, answer, scanVars, connVars, peerVars, fileVars,
                 exitVars>>

\* lines 153-155 and 82: the loop test, "Attempt %d", entry of get_access_points
Attempt ==
  /\ pc = "while"
  /\ ~step_1_completed
  /\ displayed' = counter
  /\ success' = FALSE
  /\ i' = 0
  /\ scan_calls' = 0
  /\ sleeps' = 0
  /\ kinds' = {}
  /\ scan_status' = "none"
  /\ scan_output' = <<>>
  /\ pc' = "for"
  /\ UNCHANGED <<counter, step_1_completed, answer, connVars, peerVars,
                 fileVars, exitVars>>

\* ScanStep with sys.exit on CalledProcessError instead of `return False`
ScanStep_ExitOnError(outs) ==
  /\ pc = "for"
  /\ scan_calls' = scan_calls + 1
  /\ \/ /\ scan_status' = "nonzero"
        /\ scan_output' = <<>>
        /\ success' = FALSE
        /\ kinds' = kinds \cup {"nonzero"}
        /\ exit_code' = 1
        /\ pc' = "exited"
        /\ UNCHANGED <<ap_file, ap_writes, fault, done_printed>>
     \/ \E out \in outs :
          LET rows == wpa_mcgill_results(out)
          IN /\ scan_status' = "zero"
             /\ scan_output' = out
             /\ IF rows = <<>>
                THEN /\ success' = FALSE
                     /\ kinds' = kinds \cup {"nomatch"}
                     /\ UNCHANGED <<ap_file, ap_writes>>
                ELSE /\ success' = TRUE
                     /\ ap_file' = rows
                     /\ ap_writes' = ap_writes + 1
                     /\ UNCHANGED kinds
             /\ pc' = IF success' THEN "ret" ELSE "sleep"
             /\ UNCHANGED exitVars
  /\ UNCHANGED <<mainVars, i, sleeps, connVars, peerVars, ci_file, ci_writes>>

\* ScanStep in a loop without the `break` of line 86
ScanStep_NoBreak(outs) ==
  /\ pc = "for"
  /\ scan_calls' = scan_calls + 1
  /\ \/ /\ scan_status' = "nonzero"
        /\ scan_output' = <<>>
        /\ success' = FALSE
        /\ kinds' = kinds \cup {"nonzero"}
        /\ UNCHANGED <<ap_file, ap_writes>>
     \/ \E out \in outs :
          LET rows == wpa_mcgill_results(out)
          IN /\ scan_status' = "zero"
             /\ scan_output' = out
             /\ IF rows = <<>>
                THEN /\ success' = FALSE
                     /\ kinds' = kinds \cup {"nomatch"}
                     /\ UNCHANGED <<ap_file, ap_writes>>
                ELSE /\ success' = TRUE
                     /\ ap_file' = rows
                     /\ ap_writes' = ap_writes + 1
                     /\ UNCHANGED kinds
  /\ pc' = "sleep"
  /\ UNCHANGED <<mainVars, i, sleeps, connVars, peerVars, ci_file, ci_writes,
                 exitVars>>

\* line 84: one call of _get_access_points (lines 50-72).  `airport -s` exits
\* nonzero (CalledProcessError, line 53), or exits zero with stdout `out`.
ScanStep(outs) ==
  /\ pc = "for"
  /\ scan_calls' = scan_calls + 1
  /\ \/ /\ scan_status' = "nonzero"
        /\ scan_output' = <<>>
        /\ success' = FALSE
        /\ kinds' = kinds \cup {"nonzero"}
        /\ UNCHANGED <<ap_file, ap_writes>>
     \/ \E out \in outs :
          LET rows == wpa_mcgill_results(out)
          IN /\ scan_status' = "zero"
             /\ scan_output' = out
             /\ IF rows = <<>>
                THEN /\ success' = FALSE
                     /\ kinds' = kinds \cup {"nomatch"}
                     /\ UNCHANGED <<ap_file, ap_writes>>
                ELSE /\ success' = TRUE
                     /\ ap_file' = rows
                     /\ ap_writes' = ap_writes + 1
                     /\ UNCHANGED kinds
  /\ pc' = IF success' THEN "ret" ELSE "sleep"
  /\ UNCHANGED <<mainVars, i, sleeps, connVars, peerVars, ci_file, ci_writes,
                 exitVars>>

ScanAttempt == ScanStep(ScanOutputs(MainLen))

\* Sleep with range(number_attempts + 1)
Sleep_OffByOne ==
  /\ pc = "sleep"
  /\ sleeps' = sleeps + 1
  /\ IF i + 1 <= number_attempts
     THEN i' = i + 1 /\ pc' = "for"
     ELSE i' = i /\ pc' = "ret"
  /\ UNCHANGED <<mainVars, success, scan_calls, kinds, scan_status,
                 scan_output, connVars, peerVars, fileVars, exitVars>>

\* line 87 and the next turn of the for loop of line 83
Sleep ==
  /\ pc = "sleep"
  /\ sleeps' = sleeps + 1
  /\ IF i + 1 < number_attempts
     THEN i' = i + 1 /\ pc' = "for"
     ELSE i' = i /\ pc' = "ret"
  /\ UNCHANGED <<mainVars, success, scan_calls, kinds, scan_status,
                 scan_output, connVars, peerVars, fileVars, exitVars>>

\* Return into a __main__ that goes on to step 2 whatever was returned
Return_FallThrough ==
  /\ pc = "ret"
  /\ step_1_completed' = success
  /\ pc' = "step2"
  /\ i' = 0
  /\ success' = FALSE
  /\ scan_calls' = 0
  /\ sleeps' = 0
  /\ kinds' = {}
  /\ scan_status' = "none"
  /\ scan_output' = <<>>
  /\ UNCHANGED <<counter, displayed, answer, connVars, peerVars, fileVars,
                 exitVars>>

\* line 88 and line 155: get_access_points returns success to __main__; its
\* locals and the per-call counts are gone
Return ==
  /\ pc = "ret"
  /\ step_1_completed' = success
  /\ pc' = IF success THEN "step2" ELSE "prompt"
  /\ i' = 0
  /\ success' = FALSE
  /\ scan_calls' = 0
  /\ sleeps' = 0
  /\ kinds' = {}
  /\ scan_status' = "none"
  /\ scan_output' = <<>>
  /\ UNCHANGED <<counter, displayed, answer, connVars, peerVars, fileVars,
                 exitVars>>

Answers == {"Yes", "No", "yes", ""}

\* Prompt that leaves with status 0 when the user declines
Prompt_ExitZero ==
  /\ pc = "prompt"
  /\ \E a \in {"Yes", "No", "yes", ""} :
       /\ answer' = a
       /\ IF a = "Yes"
          THEN /\ counter < MaxCounter
               /\ counter' = counter + 1
               /\ pc' = "while"
               /\ UNCHANGED exitVars
          ELSE /\ exit_code' = 0
               /\ pc' = "exited"
               /\ UNCHANGED <<counter, fault, done_printed>>
  /\ UNCHANGED <<displayed, step_1_completed, scanVars, connVars, peerVars,
                 fileVars>>

\* lines 157-162: the retry prompt
Prompt ==
  /\ pc = "prompt"
  /\ \E a \in Answers :
       /\ answer' = a
       /\ IF a = "Yes"
          THEN /\ counter < MaxCounter
               /\ counter' = counter + 1
               /\ pc' = "while"
               /\ UNCHANGED exitVars
          ELSE /\ exit_code' = -1
               /\ pc' = "exited"
               /\ UNCHANGED <<counter, fault, done_printed>>
  /\ UNCHANGED <<displayed, step_1_completed, scanVars, connVars, peerVars,
                 fileVars>>

----------------------------------------------------------------------------
(* get_current_connection_info, lines 127-136.                             *)

ConnAlphabet == {"k", ":", " ", "\n"}

ConnOutputs(n) == SeqsUpTo(ConnAlphabet, n)

\* line 132: the generator handed to dict()
elems(out) ==
  LET lines == split(strip(out), "\n")
  IN [j \in 1..Len(lines) |-> split1(strip(lines[j]), ":")]

\* d[key] = val
dict_set(d, key, val) ==
  [x \in (DOMAIN d) \cup {key} |-> IF x = key THEN val ELSE d[x]]

\* dict(pairs) in which the first pair of a key stays
RECURSIVE dict_FirstWins(_)
dict_FirstWins(pairs) ==
  IF pairs = <<>> THEN <<>>
  ELSE dict_set(dict_FirstWins(Tail(pairs)), Head(pairs)[1], Head(pairs)[2])

\* dict(pairs): the pairs are stored in order, a later key replaces an earlier
RECURSIVE dict(_)
dict(pairs) ==
  IF pairs = <<>> THEN <<>>
  ELSE LET last == pairs[Len(pairs)]
       IN dict_set(dict(SubSeq(pairs, 1, Len(pairs) - 1)), last[1], last[2])

\* dict() raises ValueError on an element that is not a pair
raises_ValueError(pairs) == \E j \in 1..Len(pairs) : Len(pairs[j]) # 2

\* ConnStep that starts the inspector again when `airport -I` exits nonzero
ConnStep_Retry(outs) ==
  /\ pc = "step2"
  /\ conn_calls < 3
  /\ conn_calls' = conn_calls + 1
  /\ \/ /\ conn_status' = "nonzero"
        /\ pc' = "step2"
        /\ UNCHANGED <<result, exitVars>>
     \/ \E out \in outs :
          /\ conn_status' = "zero"
          /\ IF raises_ValueError(elems(out))
             THEN /\ fault' = "ValueError"
                  /\ exit_code' = 1
                  /\ pc' = "exited"
                  /\ UNCHANGED <<result, done_printed>>
             ELSE /\ result' = dict(elems(out))
                  /\ pc' = "peers"
                  /\ UNCHANGED exitVars
  /\ UNCHANGED <<mainVars, scanVars, conn_output, peerVars, fileVars>>

\* lines 165-166 and 127-132: `airport -I` exits nonzero (the function returns
\* False, which __main__ drops) or exits zero with output `out`
ConnStep(outs) ==
  /\ pc = "step2"
  /\ conn_calls' = conn_calls + 1
  /\ \/ /\ conn_status' = "nonzero"
        /\ pc' = "print_done"
        /\ UNCHANGED <<result, exitVars>>
     \/ \E out \in outs :
          /\ conn_status' = "zero"
          /\ IF raises_ValueError(elems(out))
             THEN /\ fault' = "ValueError"
                  /\ exit_code' = 1
                  /\ pc' = "exited"
                  /\ UNCHANGED <<result, done_printed>>
             ELSE /\ result' = dict(elems(out))
                  /\ pc' = "peers"
                  /\ UNCHANGED exitVars
  /\ UNCHANGED <<mainVars, scanVars, conn_output, peerVars, fileVars>>

ConnInfo == ConnStep(ConnOutputs(MainLen))

----------------------------------------------------------------------------
(* get_users_connected, lines 99-117.                                      *)

en0 == <<"e", "n", "0">>
en1 == <<"e", "n", "1">>
lo0 == <<"l", "o", "0">>

IfaceNames == {en0, en1, lo0}

Broadcasts == {"10.0.0.255", "10.0.1.255"}

\* one address entry of netifaces.ifaddresses(interface)[AF_INET]
Links == {[addr |-> "10.0.0.2"]}
           \cup {[addr |-> "10.0.0.2", broadcast |-> b] : b \in Broadcasts}

\* one interface: its name, whether AF_INET is among its address families,
\* and the AF_INET entries
Ifaces(nl) ==
  {[name |-> n, has_inet |-> FALSE, links |-> <<>>] : n \in IfaceNames}
    \cup {[name |-> n, has_inet |-> TRUE, links |-> l] :
            n \in IfaceNames, l \in SeqsUpTo(Links, nl) \ {<<>>}}

\* netifaces.interfaces() with the addresses of each: distinct names
IfaceConfigs(ni, nl) ==
  {c \in SeqsUpTo(Ifaces(nl), ni) :
     \A a, b \in 1..Len(c) : a # b => c[a].name # c[b].name}

startswith(s, prefix) ==
  Len(s) >= Len(prefix) /\ SubSeq(s, 1, Len(prefix)) = prefix

\* line 101
selected(iface) == startswith(iface.name, <<"e", "n">>) /\ iface.has_inet

\* lines 104-105: item['broadcast'] of an entry without that key raises
\* KeyError, which `except IndexError` does not catch
raises_KeyError(cfg) ==
  \E a \in 1..Len(cfg) :
    /\ selected(cfg[a])
    /\ \E b \in 1..Len(cfg[a].links) : "broadcast" \notin DOMAIN cfg[a].links[b]

\* lines 99-105 when nothing is raised
RECURSIVE collect(_)
collect(cfg) ==
  IF cfg = <<>> THEN <<>>
  ELSE LET links == Head(cfg).links
       IN (IF selected(Head(cfg))
           THEN [b \in 1..Len(links) |-> links[b].broadcast]
           ELSE <<>>) \o collect(Tail(cfg))

\* line 133 calling line 99: the interfaces are enumerated
PeerStep(configs) ==
  /\ pc = "peers"
  /\ peer_calls' = peer_calls + 1
  /\ \E cfg \in configs :
       /\ IF raises_KeyError(cfg)
          THEN /\ fault' = "KeyError"
               /\ exit_code' = 1
               /\ pc' = "exited"
               /\ UNCHANGED <<broadcast_addresses, k, users_connected,
                              done_printed>>
          ELSE /\ broadcast_addresses' = collect(cfg)
               /\ users_connected' = <<>>
               /\ k' = 1
               /\ pc' = "ping"
               /\ UNCHANGED exitVars
  /\ UNCHANGED <<mainVars, scanVars, connVars, interfaces, fileVars>>

PeerEnumerate == PeerStep(IfaceConfigs(MainIfaces, MainLinks))

\* lines of `arp -a` output: one that the pattern of line 114 matches, one of
\* another host, and a host name with nothing after it, which the final
\* [\w\W] of the pattern rejects
ArpLines == {"web12.wireless.mcgill.ca (10.0.0.7) at 0:1:2:3:4:5 on en0",
             "? (10.0.0.1) at 0:1:2:3:4:6 on en0",
             "web12.wireless.mcgill.ca"}

re_match(user) ==
  user = "web12.wireless.mcgill.ca (10.0.0.7) at 0:1:2:3:4:5 on en0"

\* line 114
answer_len(objects_in_network) ==
  Cardinality({j \in 1..Len(objects_in_network) :
                 re_match(objects_in_network[j])})

\* lines 110-115: one turn of the loop.  ping or arp exiting nonzero raises
\* CalledProcessError, which nothing catches.
PingStep(arps) ==
  /\ pc = "ping"
  /\ k <= Len(broadcast_addresses)
  /\ \/ /\ fault' = "CalledProcessError"
        /\ exit_code' = 1
        /\ pc' = "exited"
        /\ UNCHANGED <<k, users_connected, done_printed>>
     \/ \E objects_in_network \in arps :
          /\ users_connected' =
               Append(users_connected,
                      broadcast_addresses[k] :> answer_len(objects_in_network))
          /\ k' = k + 1
          /\ pc' = "ping"
          /\ UNCHANGED exitVars
  /\ UNCHANGED <<mainVars, scanVars, connVars, peer_calls, interfaces,
                 broadcast_addresses, fileVars>>

Ping == PingStep(SeqsUpTo(ArpLines, MaxArp))

\* lines 117 and 133-136: the list is returned, stored and the file written
ConnWrite ==
  /\ pc = "ping"
  /\ k > Len(broadcast_addresses)
  /\ result' = dict_set(result, users_connected_key, users_connected)
  /\ ci_file' = result'
  /\ ci_writes' = ci_writes + 1
  /\ pc' = "print_done"
  /\ UNCHANGED <<mainVars, scanVars, conn_calls, conn_status, conn_output,
                 peerVars, ap_file, ap_writes, exitVars>>

\* line 169, and the interpreter leaving with status 0
Done ==
  /\ pc = "print_done"
  /\ done_printed' = TRUE
  /\ exit_code' = 0
  /\ pc' = "exited"
  /\ UNCHANGED <<mainVars, scanVars, connVars, peerVars, fileVars, fault>>

----------------------------------------------------------------------------
(* The whole program.                                                      *)

Next ==
  \/ Start
  \/ Attempt
  \/ ScanAttempt
  \/ Sleep
  \/ Return
  \/ Prompt
  \/ ConnInfo
  \/ PeerEnumerate
  \/ Ping
  \/ ConnWrite
  \/ Done

Spec == Init /\ [][Next]_vars

----------------------------------------------------------------------------
(* One call of _get_access_points on every output up to MaxScanLen, from   *)
(* the state in which get_access_points makes its first call.              *)

InitScan ==
  /\ pc = "for"
  /\ counter = 1
  /\ displayed = 1
  /\ step_1_completed = FALSE
  /\ answer = ""
  /\ exit_code = 0
  /\ fault = "none"
  /\ done_printed = FALSE
  /\ i = 0
  /\ success = FALSE
  /\ scan_calls = 0
  /\ sleeps = 0
  /\ kinds = {}
  /\ scan_status = "none"
  /\ scan_output = <<>>
  /\ ap_file = <<>>
  /\ ap_writes = 0
  /\ conn_calls = 0
  /\ conn_status = "none"
  /\ conn_output = <<>>
  /\ result = <<>>
  /\ peer_calls = 0
  /\ interfaces = <<>>
  /\ broadcast_addresses = <<>>
  /\ k = 0
  /\ users_connected = <<>>
  /\ ci_file = <<>>
  /\ ci_writes = 0

ScanAny == ScanStep(ScanOutputs(MaxScanLen))

NextScan == ScanAny

SpecScan == InitScan /\ [][NextScan]_vars

----------------------------------------------------------------------------
(* get_current_connection_info on every output up to MaxConnLen, on a      *)
(* machine without network interfaces, from the state in which the first   *)
(* scan attempt has succeeded on "x\nw".                                   *)

InitConn ==
  /\ pc = "step2"
  /\ counter = 1
  /\ displayed = 1
  /\ step_1_completed = TRUE
  /\ answer = ""
  /\ exit_code = 0
  /\ fault = "none"
  /\ done_printed = FALSE
  /\ i = 0
  /\ success = FALSE
  /\ scan_calls = 0
  /\ sleeps = 0
  /\ kinds = {}
  /\ scan_status = "none"
  /\ scan_output = <<>>
  /\ ap_file = wpa_mcgill_results(<<"x", "\n", "w">>)
  /\ ap_writes = 1
  /\ conn_calls = 0
  /\ conn_status = "none"
  /\ conn_output \in ConnOutputs(MaxConnLen)
  /\ result = <<>>
  /\ peer_calls = 0
  /\ interfaces = <<>>
  /\ broadcast_addresses = <<>>
  /\ k = 0
  /\ users_connected = <<>>
  /\ ci_file = <<>>
  /\ ci_writes = 0

ConnGiven == ConnStep({conn_output})

PeerGiven == PeerStep({interfaces})

NextConn == ConnGiven \/ PeerGiven \/ ConnWrite \/ Done

SpecConn == InitConn /\ [][NextConn]_vars

----------------------------------------------------------------------------
(* get_users_connected on every interface configuration up to MaxIfaces    *)
(* interfaces of MaxLinks entries, from the state in which `airport -I`    *)
(* has printed "k:k".                                                      *)

InitPeers ==
  /\ pc = "peers"
  /\ counter = 1
  /\ displayed = 1
  /\ step_1_completed = TRUE
  /\ answer = ""
  /\ exit_code = 0
  /\ fault = "none"
  /\ done_printed = FALSE
  /\ i = 0
  /\ success = FALSE
  /\ scan_calls = 0
  /\ sleeps = 0
  /\ kinds = {}
  /\ scan_status = "none"
  /\ scan_output = <<>>
  /\ ap_file = wpa_mcgill_results(<<"x", "\n", "w">>)
  /\ ap_writes = 1
  /\ conn_calls = 1
  /\ conn_status = "zero"
  /\ conn_output = <<"k", ":", "k">>
  /\ result = dict(elems(<<"k", ":", "k">>))
  /\ peer_calls = 0
  /\ interfaces \in IfaceConfigs(MaxIfaces, MaxLinks)
  /\ broadcast_addresses = <<>>
  /\ k = 0
  /\ users_connected = <<>>
  /\ ci_file = <<>>
  /\ ci_writes = 0

NextPeers == PeerGiven \/ Ping \/ ConnWrite \/ Done

SpecPeers == InitPeers /\ [][NextPeers]_vars

----------------------------------------------------------------------------
(* What the claims speak of, stated on the text of the output itself.      *)

\* the lines of a text; a final newline ends the last line, it starts none
text_lines(out) ==
  LET ls == split(out, "\n")
  IN IF ls[Len(ls)] = <<>> THEN SubSeq(ls, 1, Len(ls) - 1) ELSE ls

\* the lines after the header line, each as its whitespace-delimited tokens
rows_after_header(out) ==
  LET ls == split(out, "\n")
  IN [j \in 1..(Len(ls) - 1) |-> split_ws(ls[j + 1])]

is_target_row(row) == row # <<>> /\ row[1] = wpa_mcgill_ca

non_blank(row) == row # <<>>

has_colon(line) == find(line, ":") # 0

before_colon(line) == SubSeq(line, 1, find(line, ":") - 1)

after_colon(line) == SubSeq(line, find(line, ":") + 1, Len(line))

\* the last line of ls whose text before the first colon is key
last_with(ls, key) ==
  ls[CHOOSE j \in 1..Len(ls) :
       /\ before_colon(ls[j]) = key
       /\ \A h \in (j + 1)..Len(ls) : before_colon(ls[h]) # key]

\* the lines of get_current_connection_info: of the stripped output, stripped
stripped_lines(out) ==
  LET ls == split(strip(out), "\n")
  IN [j \in 1..Len(ls) |-> strip(ls[j])]

\* the interfaces of the claim C5: wireless, with an AF_INET entry that has
\* a broadcast address
bearing(iface) ==
  /\ startswith(iface.name, <<"e", "n">>)
  /\ iface.has_inet
  /\ \E b \in 1..Len(iface.links) : "broadcast" \in DOMAIN iface.links[b]

----------------------------------------------------------------------------
(* The claims.                                                             *)

\* C1: in one call of get_access_points, _get_access_points is attempted at
\* most 5 times; when every attempt fails it is attempted exactly 5 times and
\* the call returns failure to __main__, which then prompts.
C1_AtMostFiveAttempts ==
  /\ scan_calls <= 5
  /\ (pc = "ret" /\ ~success) => scan_calls = 5
  /\ pc = "prompt" => ~step_1_completed

C1_Witness == pc = "ret" /\ ~success /\ scan_calls = 5 /\ sleeps = 5

\* C2: when `airport -s` exits zero, one attempt reports success if and only
\* if some row after the header has 'wpa.mcgill.ca' as its first token, for
\* every output, blank and whitespace-only rows included.  (Stated of the
\* outputs whose header line is not blank; C3 is about the others.)
C2_SuccessIffTargetRow ==
  (pc \in {"sleep", "ret"} /\ scan_status = "zero"
     /\ split_ws(split(scan_output, "\n")[1]) # <<>>) =>
    (success <=>
       \E j \in 1..Len(rows_after_header(scan_output)) :
         is_target_row(rows_after_header(scan_output)[j]))

\* C3: the first line of the output is discarded and never retained as a
\* record, whatever it holds, and header removal discards no other line: the
\* non-blank rows the filter looks at are the non-blank lines after the first,
\* and the rows written are among the target rows after the first line.
C3_OnlyHeaderDiscarded ==
  (pc \in {"sleep", "ret"} /\ scan_status = "zero") =>
    /\ SelectSeq(results(scan_output), non_blank)
         = SelectSeq(rows_after_header(scan_output), non_blank)
    /\ success =>
         Len(ap_file) <= Len(SelectSeq(rows_after_header(scan_output),
                                       is_target_row))

\* C4 as stated: the process exits with -1 if and only if a retry sequence
\* failed and the user answers anything but 'Yes'; every other run that ends
\* prints 'Done' and exits 0; 'Yes' starts a complete retry sequence with the
\* displayed attempt number one higher.
C4_ExitMinusOneOrDone ==
  [][/\ (pc # "exited" /\ pc' = "exited") =>
          /\ exit_code' = -1 <=> (pc = "prompt" /\ answer' # "Yes")
          /\ exit_code' # -1 => (done_printed' /\ exit_code' = 0)
     /\ (pc = "prompt" /\ answer' = "Yes") =>
          (pc' = "while" /\ counter' = counter + 1)
     /\ pc = "while" =>
          (pc' = "for" /\ displayed' = counter /\ i' = 0 /\ scan_calls' = 0)
    ]_vars

\* C4 as amended: the process exits with -1 if and only if a retry sequence
\* failed and the user answers anything but 'Yes'; a run that ends otherwise
\* either prints 'Done' and exits 0, or is ended, 'Done' unprinted and with
\* status 1, by an exception nothing catches, raised inside
\* get_current_connection_info; 'Yes' starts a complete retry sequence with
\* the displayed attempt number one higher.
C4_ExitCodes ==
  [][/\ (pc # "exited" /\ pc' = "exited") =>
          /\ exit_code' = -1 <=> (pc = "prompt" /\ answer' # "Yes")
          /\ exit_code' # -1 =>
               \/ done_printed' /\ exit_code' = 0 /\ fault' = "none"
               \/ /\ ~done_printed' /\ exit_code' = 1
                  /\ pc \in {"step2", "peers", "ping"}
                  /\ fault' \in {"ValueError", "KeyError", "CalledProcessError"}
     /\ (pc = "prompt" /\ answer' = "Yes") =>
          (pc' = "while" /\ counter' = counter + 1)
     /\ pc = "while" =>
          (pc' = "for" /\ displayed' = counter /\ i' = 0 /\ scan_calls' = 0)
    ]_vars

C4_Witness ==
  pc = "exited" /\ exit_code = -1 /\ answer = "No" /\ counter = 2
    /\ displayed = 2

\* C5: get_users_connected returns exactly one entry per wireless interface
\* that has an AF_INET entry with a broadcast address, for every interface
\* configuration: an interface with several AF_INET entries, and one whose
\* AF_INET entry has no 'broadcast' key, included.
C5_OneEntryPerInterface ==
  /\ fault # "KeyError"
  /\ ci_writes = 1 =>
       Len(users_connected)
         = Cardinality({a \in 1..Len(interfaces) : bearing(interfaces[a])})

\* C6 as stated: when every line of the output has a colon, the mapping has
\* exactly one key per distinct text before the first colon of a line, the
\* value of a key is the text after the first colon of the last line with
\* that prefix, and the only other key is 'users_connected'.
C6_KeyPerPrefix ==
  LET ls == text_lines(conn_output)
  IN (ci_writes = 1 /\ \A j \in 1..Len(ls) : has_colon(ls[j])) =>
       /\ DOMAIN ci_file
            = {before_colon(ls[j]) : j \in 1..Len(ls)} \cup {users_connected_key}
       /\ \A j \in 1..Len(ls) :
            ci_file[before_colon(ls[j])]
              = after_colon(last_with(ls, before_colon(ls[j])))

\* C6 as amended: the same of the lines as get_current_connection_info takes
\* them, the lines of the output without its leading and trailing whitespace,
\* each without its own leading and trailing whitespace: the call raises
\* ValueError exactly when one of these has no colon, and otherwise the
\* mapping has one key per distinct prefix of these, the value of the last
\* such line, and 'users_connected' as its only other key.
C6_KeyPerStrippedPrefix ==
  LET ls == stripped_lines(conn_output)
  IN /\ fault = "ValueError" => \E j \in 1..Len(ls) : ~has_colon(ls[j])
     /\ (pc = "exited" /\ conn_status = "zero"
           /\ \A j \in 1..Len(ls) : has_colon(ls[j])) =>
          (ci_writes = 1 /\ done_printed /\ exit_code = 0)
     /\ ci_writes = 1 =>
          /\ \A j \in 1..Len(ls) : has_colon(ls[j])
          /\ DOMAIN ci_file
               = {before_colon(ls[j]) : j \in 1..Len(ls)}
                   \cup {users_connected_key}
          /\ \A j \in 1..Len(ls) :
               ci_file[before_colon(ls[j])]
                 = after_colon(last_with(ls, before_colon(ls[j])))
          /\ ci_file[users_connected_key] = users_connected

\* two lines with the key "k", the first with an empty value, the last "k"
C6_Witness ==
  /\ ci_writes = 1
  /\ conn_output = <<"k", ":", "\n", "k", ":", "k">>
  /\ ci_file[<<"k">>] = <<"k">>

\* C7: when `airport -I` exits nonzero, get_current_connection_info returns
\* without calling get_users_connected and without writing the Connection
\* Info file, and __main__ goes on: 'Done' is printed, the exit status is 0,
\* and the command is not run again.
C7_ConnFailureIgnored ==
  conn_status = "nonzero" =>
    /\ peer_calls = 0
    /\ ci_writes = 0
    /\ conn_calls = 1
    /\ fault = "none"
    /\ pc \in {"print_done", "exited"}
    /\ pc = "exited" => (done_printed /\ exit_code = 0)

C7_Witness ==
  conn_status = "nonzero" /\ pc = "exited" /\ done_printed /\ exit_code = 0

\* C8: an attempt whose command exits nonzero and an attempt with no matching
\* row both return failure, write no file and do not end the process, and
\* both are followed by the 1-second sleep: from the same state either leads
\* to the same state of the program, the record of the run apart.
C8_FailuresAlike ==
  [][/\ (pc = "for" /\ pc' # "for"
           /\ (scan_status' = "nonzero"
                 \/ wpa_mcgill_results(scan_output') = <<>>)) =>
          /\ ~success'
          /\ pc' = "sleep"
          /\ scan_calls' = scan_calls + 1
          /\ UNCHANGED <<mainVars, i, sleeps, connVars, peerVars, fileVars,
                         exitVars>>
     /\ pc = "sleep" =>
          /\ sleeps' = sleeps + 1
          /\ pc' \in {"for", "ret"}
          /\ UNCHANGED <<success, fileVars, exitVars>>
    ]_vars

C8_Witness == pc = "sleep" /\ kinds = {"nonzero", "nomatch"}

C10_InspectorAfterScan ==
  /\ conn_calls <= 1
  /\ peer_calls <= conn_calls
  /\ ci_writes <= peer_calls
  /\ conn_calls = 1 => (step_1_completed /\ ap_writes = 1)
  /\ (pc = "exited" /\ exit_code = -1) =>
       (conn_calls = 0 /\ peer_calls = 0 /\ ci_writes = 0)

C10_Witness ==
  pc = "exited" /\ conn_calls = 1 /\ peer_calls = 1 /\ ci_writes = 1
    /\ counter = 2

====
